---- MODULE Spec2Model ----
(***************************************************************************)
(* A model of the CPromise class (src/unnamed/part_001): the promise state *)
(* machine, the constructor, then(), parse() and the static resolve(),     *)
(* reject(), all() and race(), run over a FIFO queue of setTimeout(fn)     *)
(* tasks; and of the class HD (src/HD.js).  Promises live in a heap        *)
(* indexed by the order in which they are constructed.                     *)
(***************************************************************************)
EXTENDS Integers, Sequences, FiniteSets, TLC

\* ------------------------------------------------------------- bounds
MaxPromises == 3      \* promises constructed in a run of Spec
MaxAdoptPromises == 5 \* promises constructed in a run of SpecAdopt
MaxAllPromises == 5   \* promises constructed in a run of SpecAll
MaxHeld == 2          \* promises settled from outside in SpecAdopt and SpecAll
MaxList == 2          \* length of the list handed to all() and to race()
MaxRacePromises == 5  \* promises constructed in a run of SpecRace
MaxStaticPromises == 4 \* promises constructed in a run of SpecStatic
MaxPassPromises == 4  \* promises constructed in a run of SpecPass
MaxFlattenPromises == 4 \* promises constructed in a run of SpecFlatten
MaxHDObjects == 2     \* HD objects constructed in a run of SpecHD
MaxHDCalls == 3       \* waiters, queued tasks and handler runs in a run of SpecHD

\* ---------------------------------------------------------- constants
PENDING == "pending"
FULFILLED == "fulfilled"
REJECT == "reject"

\* ------------------------------------------------------------- values
\* A JavaScript value: k is its type tag, x a string payload, n the heap
\* index of a promise object, s the elements of an array.
Null == [k |-> "null", x |-> "", n |-> 0, s |-> <<>>]
Undefined == [k |-> "undefined", x |-> "", n |-> 0, s |-> <<>>]
Str(x) == [k |-> "string", x |-> x, n |-> 0, s |-> <<>>]
PromiseRef(p) == [k |-> "promise", x |-> "", n |-> p, s |-> <<>>]
Array(s) == [k |-> "array", x |-> "", n |-> 0, s |-> s]
CycleError == [k |-> "TypeError", x |-> "Chaining cycle detected", n |-> 0, s |-> <<>>]

\* SpecAll settles each promise with a value and a reason of its own, so that
\* the elements of an array and the reasons of two inputs can be told apart.
ValueOf(p) == Str(<<"v1", "v2", "v3", "v4", "v5", "v6", "v7", "v8">>[p])
ReasonOf(p) == Str(<<"e1", "e2", "e3", "e4", "e5", "e6", "e7", "e8">>[p])

\* ----------------------------------------------------------- handlers
\* What may be passed to then(): h names the behaviour of the function, n
\* the promise its closure refers to, v the value it returns or throws.
NotAFunction == [h |-> "notAFunction", n |-> 0, v |-> Undefined]
ThisValue(p) == [h |-> "thisValue", n |-> p, v |-> Undefined]
Returns(v) == [h |-> "returns", n |-> 0, v |-> v]
Throws(v) == [h |-> "throws", n |-> 0, v |-> v]
ReturnsPromise(p) == [h |-> "returnsPromise", n |-> p, v |-> Undefined]
ReturnsOwnPromise == [h |-> "returnsOwnPromise", n |-> 0, v |-> Undefined]
ResolveOf(p) == [h |-> "resolve", n |-> p, v |-> Undefined]
RejectOf(p) == [h |-> "reject", n |-> p, v |-> Undefined]
AllOnFulfilled(a) == [h |-> "allOnFulfilled", n |-> a, v |-> Undefined]
AllOnRejected(a) == [h |-> "allOnRejected", n |-> a, v |-> Undefined]
RaceOnFulfilled(a) == [h |-> "raceOnFulfilled", n |-> a, v |-> Undefined]
RaceOnRejected(a) == [h |-> "raceOnRejected", n |-> a, v |-> Undefined]

\* ---------------------------------------------------------- executors
\* What may be passed to the constructor: e names the behaviour of the
\* function, v the value it settles with, w the value it throws.
ThrowsAtOnce(w) == [e |-> "throws", v |-> Undefined, w |-> w]
ResolvesThenThrows(v, w) == [e |-> "resolvesThenThrows", v |-> v, w |-> w]
RejectsThenThrows(v, w) == [e |-> "rejectsThenThrows", v |-> v, w |-> w]
ExecutorOfResolve(value) == [e |-> "staticResolve", v |-> value, w |-> Undefined]
ExecutorOfReject(value) == [e |-> "staticReject", v |-> value, w |-> Undefined]

\* ---------------------------------------------------------- variables
VARIABLES
    status,     \* status[p]: this.status of promise p
    value,      \* value[p]: this.value
    callbacks,  \* callbacks[p]: this.callbacks, a sequence of waiters
    queue,      \* the tasks handed to setTimeout, oldest first
    resloves,   \* resloves[a]: the array an all() call collects into
    made,       \* made[p]: the call that constructed p (by), the promise then()
                \* was called on (of), the list given to all() or race() or the
                \* executor given to the constructor (list), and how many
                \* handlers had run by then (after)
    runs,       \* history: every handler invocation, in order
    settled,    \* history: the promises in the order they left pending
    ignored,    \* history: the promises resolve/reject was called on too late
    uncaught    \* history: the errors thrown out of a task

vars ==
    <<status, value, callbacks, queue, resloves, made, runs, settled, ignored, uncaught>>

\* The program state as one record, threaded through nested calls; frames
\* is the call stack of the code being run.
Cur ==
    [status |-> status, value |-> value, callbacks |-> callbacks, queue |-> queue,
     resloves |-> resloves, made |-> made, runs |-> runs, settled |-> settled,
     ignored |-> ignored, frames |-> <<>>]

Enter(H, f) == [H EXCEPT !.frames = Append(@, f)]
Leave(H) == [H EXCEPT !.frames = SubSeq(@, 1, Len(@) - 1)]

Count(H) == Len(H.status)

Task(t, p, c, f, v) == [t |-> t, p |-> p, c |-> c, f |-> f, v |-> v]

Waiter(c, f, g) == [promise |-> c, onFulfilled |-> f, onRejected |-> g]

\* The result of a call that may throw: the state after it, whether it
\* returned normally, and the value returned or thrown.
Ret(H, r) == [H |-> H, ok |-> TRUE, r |-> r]
Thrown(H, e) == [H |-> H, ok |-> FALSE, r |-> e]

\* setTimeout(fn) is defined after the tasks it queues.
RECURSIVE setTimeout(_, _)

\* ------------------------------------------------ resolve() / reject()
\* resolve() without its test of this.status.
resolveUnguarded(H, p, v) ==
    LET H1 == Enter(H, "resolve")
        H2 == [H1 EXCEPT !.status[p] = FULFILLED,
                         !.value[p] = v,
                         !.settled = Append(@, p)]
        H3 == setTimeout(H2, Task("dispatchFulfilled", p, 0, NotAFunction, v))
    IN  Leave(H3)

\* The instance method resolve(value).
resolve(H, p, v) ==
    IF H.status[p] = PENDING
    THEN LET H1 == Enter(H, "resolve")
             H2 == [H1 EXCEPT !.status[p] = FULFILLED,
                              !.value[p] = v,
                              !.settled = Append(@, p)]
             H3 == setTimeout(H2, Task("dispatchFulfilled", p, 0, NotAFunction, v))
         IN  Leave(H3)
    ELSE [H EXCEPT !.ignored = @ \cup {p}]

\* reject() without its test of this.status.
rejectUnguarded(H, p, v) ==
    LET H1 == Enter(H, "reject")
        H2 == [H1 EXCEPT !.status[p] = REJECT,
                         !.value[p] = v,
                         !.settled = Append(@, p)]
        H3 == setTimeout(H2, Task("dispatchRejected", p, 0, NotAFunction, v))
    IN  Leave(H3)

\* The instance method reject(reason).
reject(H, p, v) ==
    IF H.status[p] = PENDING
    THEN LET H1 == Enter(H, "reject")
             H2 == [H1 EXCEPT !.status[p] = REJECT,
                              !.value[p] = v,
                              !.settled = Append(@, p)]
             H3 == setTimeout(H2, Task("dispatchRejected", p, 0, NotAFunction, v))
         IN  Leave(H3)
    ELSE [H EXCEPT !.ignored = @ \cup {p}]

\* ------------------------------------------------------- constructor
\* The first three statements of the constructor: a new pending promise at
\* the next heap index.  by/of/list record which call constructed it.
construct(H, by, of, list) ==
    [H EXCEPT !.status = Append(@, PENDING),
              !.value = Append(@, Null),
              !.callbacks = Append(@, <<>>),
              !.resloves = Append(@, <<>>),
              !.made = Append(@, [by |-> by, of |-> of, list |-> list,
                                  after |-> Len(H.runs)])]

\* this.callbacks.unshift(waiter) in the place of push.
unshift(H, p, w) == [H EXCEPT !.callbacks[p] = <<w>> \o @]

\* this.callbacks.push(waiter)
push(H, p, w) == [H EXCEPT !.callbacks[p] = Append(@, w)]

\* -------------------------------------------------------------- then
\* then() entering its waiter in the callbacks list whatever the status.
thenAlwaysPushing(H, p, onFulfilled, onRejected) ==
    LET H0 == Enter(H, "then")
        f == IF onFulfilled.h = "notAFunction" THEN ThisValue(p) ELSE onFulfilled
        g == IF onRejected.h = "notAFunction" THEN ThisValue(p) ELSE onRejected
        c == Count(H0) + 1
        H1 == construct(H0, "then", p, <<>>)
        H2 == IF H1.status[p] = FULFILLED
              THEN setTimeout(H1, Task("thenFulfilled", p, c, f, Undefined))
              ELSE H1
        H3 == IF H2.status[p] = REJECT
              THEN setTimeout(H2, Task("thenRejected", p, c, g, Undefined))
              ELSE H2
        H4 == push(H3, p, Waiter(c, f, g))
    IN  [H |-> Leave(H4), promise |-> c]

\* then(onFulfilled, onRejected) on promise p: the state after the call and
\* the promise it returns.
then(H, p, onFulfilled, onRejected) ==
    LET H0 == Enter(H, "then")
        f == IF onFulfilled.h = "notAFunction" THEN ThisValue(p) ELSE onFulfilled
        g == IF onRejected.h = "notAFunction" THEN ThisValue(p) ELSE onRejected
        c == Count(H0) + 1
        H1 == construct(H0, "then", p, <<>>)
        H2 == IF H1.status[p] = FULFILLED
              THEN setTimeout(H1, Task("thenFulfilled", p, c, f, Undefined))
              ELSE H1
        H3 == IF H2.status[p] = REJECT
              THEN setTimeout(H2, Task("thenRejected", p, c, g, Undefined))
              ELSE H2
        H4 == IF H3.status[p] = PENDING
              THEN push(H3, p, Waiter(c, f, g))
              ELSE H3
    IN  [H |-> Leave(H4), promise |-> c]

\* ------------------------------------------------------------- parse
\* parse() calling resolve() without the result.
parseDropping(H, promise, result) ==
    IF result = PromiseRef(promise)
    THEN Thrown(H, CycleError)
    ELSE IF result.k = "promise"
         THEN Ret(then(H, result.n, ResolveOf(promise), RejectOf(promise)).H, Undefined)
         ELSE Ret(resolve(H, promise, Undefined), Undefined)

\* parse(promise, result, resolve, reject), resolve and reject being the
\* capabilities of promise.
parse(H, promise, result) ==
    IF result = PromiseRef(promise)
    THEN Thrown(H, CycleError)
    ELSE IF result.k = "promise"
         THEN Ret(then(H, result.n, ResolveOf(promise), RejectOf(promise)).H, Undefined)
         ELSE Ret(resolve(H, promise, result), Undefined)

\* ---------------------------------------------------- calling a handler
\* f(arg), f being a handler given to then() that returned promise c.
Invoke(H, f, arg, c) ==
    CASE f.h = "thisValue" -> Ret(H, H.value[f.n])
      [] f.h = "returns" -> Ret(H, f.v)
      [] f.h = "throws" -> Thrown(H, f.v)
      [] f.h = "returnsPromise" -> Ret(H, PromiseRef(f.n))
      [] f.h = "returnsOwnPromise" -> Ret(H, PromiseRef(c))
      [] f.h = "resolve" -> Ret(resolve(H, f.n, arg), Undefined)
      [] f.h = "reject" -> Ret(reject(H, f.n, arg), Undefined)
      [] f.h = "allOnFulfilled" ->
            LET H1 == [H EXCEPT !.resloves[f.n] = Append(@, arg)]
            IN  IF Len(H1.resloves[f.n]) = Len(H1.made[f.n].list)
                THEN Ret(resolve(H1, f.n, Array(H1.resloves[f.n])), Undefined)
                ELSE Ret(H1, Undefined)
      [] f.h = "allOnRejected" -> Ret(reject(H, f.n, arg), Undefined)
      [] f.h = "raceOnFulfilled" -> Ret(resolve(H, f.n, arg), Undefined)
      [] f.h = "raceOnRejected" -> Ret(reject(H, f.n, arg), Undefined)

\* The rejected handler's result handed to reject() in the place of parse().
handleKeepingSide(H, p, c, side, f, arg, via) ==
    LET r == Invoke(H, f, arg, c)
        run == [p |-> p, c |-> c, side |-> side, h |-> f.h, n |-> f.n, arg |-> arg,
                ok |-> r.ok, r |-> r.r, via |-> via, ctx |-> H.frames]
        H1 == [r.H EXCEPT !.runs = Append(@, run)]
    IN  IF r.ok
        THEN IF side = "rejected"
             THEN Ret(reject(H1, c, r.r), Undefined)
             ELSE parse(H1, c, r.r)
        ELSE Thrown(H1, r.r)

\* let result = f(arg); this.parse(promise, result, resolve, reject)
\* for the then() call on p that returned promise c.  The invocation is
\* entered in the history with the call stack it happened on and whether it
\* came from the callbacks list or from a task then() queued (via).
handle(H, p, c, side, f, arg, via) ==
    LET r == Invoke(H, f, arg, c)
        run == [p |-> p, c |-> c, side |-> side, h |-> f.h, n |-> f.n, arg |-> arg,
                ok |-> r.ok, r |-> r.r, via |-> via, ctx |-> H.frames]
        H1 == [r.H EXCEPT !.runs = Append(@, run)]
    IN  IF r.ok THEN parse(H1, c, r.r) ELSE Thrown(H1, r.r)

\* this.callbacks.map(callback => callback.onFulfilled(value)) from waiter
\* i on (onRejected for side "rejected"): a throw ends the map.
RECURSIVE mapCallbacks(_, _, _, _, _)
mapCallbacks(H, p, side, v, i) ==
    IF i > Len(H.callbacks[p])
    THEN Ret(H, Undefined)
    ELSE LET w == H.callbacks[p][i]
             f == IF side = "fulfilled" THEN w.onFulfilled ELSE w.onRejected
             r == handle(H, p, w.promise, side, f, v, "callbacks")
         IN  IF r.ok THEN mapCallbacks(r.H, p, side, v, i + 1) ELSE r

\* The tasks of resolve() and reject() emptying the callbacks list after
\* the map.
runTaskClearing(H, task) ==
    CASE task.t = "dispatchFulfilled" ->
            [mapCallbacks(H, task.p, "fulfilled", task.v, 1) EXCEPT !.H.callbacks[task.p] = <<>>]
      [] task.t = "dispatchRejected" ->
            [mapCallbacks(H, task.p, "rejected", task.v, 1) EXCEPT !.H.callbacks[task.p] = <<>>]
      [] task.t = "thenFulfilled" ->
            handle(H, task.p, task.c, "fulfilled", task.f, H.value[task.p], "then")
      [] task.t = "thenRejected" ->
            handle(H, task.p, task.c, "rejected", task.f, H.value[task.p], "then")

\* The tasks with the two lists of handlers exchanged.
runTaskCrossed(H, task) ==
    CASE task.t = "dispatchFulfilled" -> mapCallbacks(H, task.p, "rejected", task.v, 1)
      [] task.t = "dispatchRejected" -> mapCallbacks(H, task.p, "fulfilled", task.v, 1)
      [] task.t = "thenFulfilled" ->
            handle(H, task.p, task.c, "fulfilled", task.f, H.value[task.p], "then")
      [] task.t = "thenRejected" ->
            handle(H, task.p, task.c, "rejected", task.f, H.value[task.p], "then")

\* The body of a function handed to setTimeout.
runTask(H, task) ==
    CASE task.t = "dispatchFulfilled" -> mapCallbacks(H, task.p, "fulfilled", task.v, 1)
      [] task.t = "dispatchRejected" -> mapCallbacks(H, task.p, "rejected", task.v, 1)
      [] task.t = "thenFulfilled" ->
            handle(H, task.p, task.c, "fulfilled", task.f, H.value[task.p], "then")
      [] task.t = "thenRejected" ->
            handle(H, task.p, task.c, "rejected", task.f, H.value[task.p], "then")

\* fn() in the place of setTimeout(fn): the task runs within the call.
callNow(H, task) == runTask(H, task).H

\* setTimeout(fn): the task joins the end of the queue.
setTimeout(H, task) == [H EXCEPT !.queue = Append(@, task)]

\* ------------------------------------------- constructor and executor
\* executor(this.resolve.bind(this), this.reject.bind(this)) for promise p.
runExecutor(H, p, executor) ==
    CASE executor.e = "throws" -> Thrown(H, executor.w)
      [] executor.e = "resolvesThenThrows" -> Thrown(resolve(H, p, executor.v), executor.w)
      [] executor.e = "rejectsThenThrows" -> Thrown(reject(H, p, executor.v), executor.w)
      [] executor.e = "staticResolve" ->
            IF executor.v.k = "promise"
            THEN Ret(then(H, executor.v.n, ResolveOf(p), RejectOf(p)).H, Undefined)
            ELSE Ret(resolve(H, p, executor.v), Undefined)
      [] executor.e = "staticReject" -> Ret(reject(H, p, executor.v), Undefined)

\* The constructor without its try/catch: what the executor throws is lost
\* to the promise.
newCPromiseUncaught(H, by, executor) ==
    LET p == Count(H) + 1
        H1 == construct(H, by, 0, <<executor>>)
    IN  [H |-> runExecutor(H1, p, executor).H, promise |-> p]

\* new CPromise(executor) with an executor that runs to its end within the
\* constructor: the state after the call and the promise constructed.
newCPromise(H, by, executor) ==
    LET p == Count(H) + 1
        H1 == construct(H, by, 0, <<executor>>)
        r == runExecutor(H1, p, executor)
    IN  [H |-> IF r.ok THEN r.H ELSE reject(r.H, p, r.r), promise |-> p]

\* --------------------------------------- static resolve() and reject()
\* The static resolve(value), value being x.
staticResolve(H, x) == newCPromise(H, "resolve", ExecutorOfResolve(x))

\* The static reject(value) with the executor of the static resolve(value).
staticRejectAdopting(H, x) == newCPromise(H, "reject", ExecutorOfResolve(x))

\* The static reject(value), value being x.
staticReject(H, x) == newCPromise(H, "reject", ExecutorOfReject(x))

\* --------------------------------------------------------------- all
\* The loop of all(): promises[i].then(...) for i = i..promises.length-1.
RECURSIVE allLoop(_, _, _, _)
allLoop(H, a, promises, i) ==
    IF i > Len(promises)
    THEN H
    ELSE allLoop(then(H, promises[i], AllOnFulfilled(a), AllOnRejected(a)).H,
                 a, promises, i + 1)

\* The static all(promises): the state after the call and the promise it
\* returns.
all(H, promises) ==
    LET a == Count(H) + 1
        H1 == construct(H, "all", 0, promises)
    IN  [H |-> allLoop(H1, a, promises, 1), promise |-> a]

\* -------------------------------------------------------------- race
\* The loop of race(): promises[i].then(...) for i = i..promises.length-1.
RECURSIVE raceLoop(_, _, _, _)
raceLoop(H, a, promises, i) ==
    IF i > Len(promises)
    THEN H
    ELSE raceLoop(then(H, promises[i], RaceOnFulfilled(a), RaceOnRejected(a)).H,
                  a, promises, i + 1)

\* race() with a test for the empty list that fulfills the promise.
raceSettlingOfNothing(H, promises) ==
    LET a == Count(H) + 1
        H1 == construct(H, "race", 0, promises)
    IN  [H |-> IF promises = <<>>
               THEN resolve(H1, a, Undefined)
               ELSE raceLoop(H1, a, promises, 1),
         promise |-> a]

\* The static race(promises): the state after the call and the promise it
\* returns.
race(H, promises) ==
    LET a == Count(H) + 1
        H1 == construct(H, "race", 0, promises)
    IN  [H |-> raceLoop(H1, a, promises, 1), promise |-> a]

\* ------------------------------------------------- class HD (src/HD.js)
\* HD objects live in the same heap; then() constructs nothing, so a run
\* records in c the place of the waiter, or 0 for a task of then().
NotAFunctionError(name) ==
    [k |-> "TypeError", x |-> "callback." \o name \o " is not a function", n |-> 0, s |-> <<>>]

\* A function handed to setTimeout by HD: the map over the callbacks that
\* calls the property name of each waiter with v, or the task of then().
HDTask(t, p, name, f, g, v) == [t |-> t, p |-> p, name |-> name, f |-> f, g |-> g, v |-> v]

\* The object then() pushes.
HDWaiter(f, g) == [onFulfilled |-> f, onRejected |-> g]

\* onFulfilled = () => {} for an argument that is not a function.
hdDefault(f) == IF f.h = "notAFunction" THEN Returns(Undefined) ELSE f

\* HD.resolve(value)
hdResolve(H, p, v) ==
    IF H.status[p] = PENDING
    THEN LET H1 == Enter(H, "resolve")
             H2 == [H1 EXCEPT !.status[p] = FULFILLED,
                              !.value[p] = v,
                              !.settled = Append(@, p)]
             H3 == [H2 EXCEPT !.queue =
                        Append(@, HDTask("map", p, "resolve", NotAFunction, NotAFunction, v))]
         IN  Leave(H3)
    ELSE [H EXCEPT !.ignored = @ \cup {p}]

\* HD.reject(reason)
hdReject(H, p, v) ==
    IF H.status[p] = PENDING
    THEN LET H1 == Enter(H, "reject")
             H2 == [H1 EXCEPT !.status[p] = REJECT,
                              !.value[p] = v,
                              !.settled = Append(@, p)]
             H3 == [H2 EXCEPT !.queue =
                        Append(@, HDTask("map", p, "onRejected", NotAFunction, NotAFunction, v))]
         IN  Leave(H3)
    ELSE [H EXCEPT !.ignored = @ \cup {p}]

\* HD.then(onFulfilled, onRejected)
hdThen(H, p, onFulfilled, onRejected) ==
    LET H0 == Enter(H, "then")
        g == hdDefault(onRejected)
        f == hdDefault(onFulfilled)
        H1 == IF H0.status[p] = FULFILLED
              THEN [H0 EXCEPT !.queue =
                        Append(@, HDTask("thenFulfilled", p, "", f, g, Undefined))]
              ELSE H0
        H2 == IF H1.status[p] = REJECT
              THEN [H1 EXCEPT !.queue =
                        Append(@, HDTask("thenRejected", p, "", f, g, Undefined))]
              ELSE H1
        H3 == IF H2.status[p] = PENDING
              THEN [H2 EXCEPT !.callbacks[p] = Append(@, HDWaiter(f, g))]
              ELSE H2
    IN  Leave(H3)

\* f(arg), f being a handler given to HD.then(); k is the place of its waiter.
hdInvoke(H, p, k, side, f, arg, via) ==
    LET ok == f.h # "throws"
        run == [p |-> p, c |-> k, side |-> side, h |-> f.h, n |-> f.n, arg |-> arg,
                ok |-> ok, r |-> f.v, via |-> via, ctx |-> H.frames]
    IN  [H |-> [H EXCEPT !.runs = Append(@, run)], ok |-> ok, r |-> f.v]

\* try { f(arg) } catch (error) { g(error) }
hdTry(H, p, k, side, f, g, arg, via) ==
    LET r == hdInvoke(H, p, k, side, f, arg, via)
    IN  IF r.ok THEN r ELSE hdInvoke(r.H, p, k, "rejected", g, r.r, via)

\* this.callbacks.map(callback => callback[name](v)) from waiter i on; the
\* call of a property the waiter does not have throws a TypeError.
RECURSIVE hdMap(_, _, _, _, _)
hdMap(H, p, name, v, i) ==
    IF i > Len(H.callbacks[p])
    THEN Ret(H, Undefined)
    ELSE LET w == H.callbacks[p][i]
         IN  IF name \notin DOMAIN w
             THEN Thrown(H, NotAFunctionError(name))
             ELSE LET r == IF name = "onFulfilled"
                           THEN hdTry(H, p, i, "fulfilled", w.onFulfilled, w.onRejected,
                                      v, "callbacks")
                           ELSE hdTry(H, p, i, "rejected", w.onRejected, w.onRejected,
                                      v, "callbacks")
                  IN  IF r.ok THEN hdMap(r.H, p, name, v, i + 1) ELSE r

\* The body of a function HD handed to setTimeout.
hdRunTask(H, task) ==
    CASE task.t = "map" -> hdMap(H, task.p, task.name, task.v, 1)
      [] task.t = "thenFulfilled" ->
            hdTry(H, task.p, 0, "fulfilled", task.f, task.g, H.value[task.p], "then")
      [] task.t = "thenRejected" ->
            hdTry(H, task.p, 0, "rejected", task.g, task.g, H.value[task.p], "then")

\* ------------------------------------------------------------ actions
Init ==
    /\ status = <<>>
    /\ value = <<>>
    /\ callbacks = <<>>
    /\ queue = <<>>
    /\ resloves = <<>>
    /\ made = <<>>
    /\ runs = <<>>
    /\ settled = <<>>
    /\ ignored = {}
    /\ uncaught = <<>>

\* The program state becomes H, which holds at most max promises.
Becomes(H, max) ==
    /\ Count(H) <= max
    /\ H.frames = <<>>
    /\ status' = H.status
    /\ value' = H.value
    /\ callbacks' = H.callbacks
    /\ queue' = H.queue
    /\ resloves' = H.resloves
    /\ made' = H.made
    /\ runs' = H.runs
    /\ settled' = H.settled
    /\ ignored' = H.ignored

Promises == 1..Len(status)

\* The promises whose resolve/reject capabilities the executor handed out.
Held == {p \in Promises : made[p].by = "new"}

\* Those of them no capability has been called on yet.
HeldPending == {p \in Held : status[p] = PENDING}

\* The functions user code passes to then(): nothing, or a function that
\* returns a value, throws, returns the promise then() returned, or returns
\* an existing promise.
UserHandlers ==
    {NotAFunction, Returns(Str("c")), Throws(Str("e")), ReturnsOwnPromise}
        \cup {ReturnsPromise(q) : q \in Held}

\* then(f), then(null, g), then(h, h).
HandlerPairs(S) ==
    {fg \in S \X S : fg[1] = fg[2] \/ fg[1] = NotAFunction \/ fg[2] = NotAFunction}

\* new CPromise(executor), the executor keeping resolve and reject for later
\* (for a timer or another callback to call).
New(max) ==
    /\ Len(status) < max
    /\ Becomes(construct(Cur, "new", 0, <<>>), max)
    /\ UNCHANGED uncaught

\* new CPromise(executor), the executor throwing before or after it settles
\* the promise.
NewThrowing(max) ==
    \E executor \in {ThrowsAtOnce(Str("e")),
                     ResolvesThenThrows(Str("a"), Str("e")),
                     RejectsThenThrows(Str("b"), Str("e"))} :
        /\ Len(status) < max
        /\ Becomes(newCPromise(Cur, "executor", executor).H, max)
        /\ UNCHANGED uncaught

\* User code calls CPromise.resolve(x), x among V.
StaticResolve(V, max) ==
    \E x \in V :
        /\ Len(status) < max
        /\ Becomes(staticResolve(Cur, x).H, max)
        /\ UNCHANGED uncaught

\* User code calls CPromise.reject(x), x among V.
StaticReject(V, max) ==
    \E x \in V :
        /\ Len(status) < max
        /\ Becomes(staticReject(Cur, x).H, max)
        /\ UNCHANGED uncaught

\* A kept resolve capability, of a promise among targets, is called:
\* resolve(v), v among V[p].
Resolve(targets, V) ==
    \E p \in targets : \E v \in V[p] :
        /\ Becomes(resolve(Cur, p, v), Len(status))
        /\ UNCHANGED uncaught

\* A kept reject capability, of a promise among targets, is called:
\* reject(v), v among V[p].
Reject(targets, V) ==
    \E p \in targets : \E v \in V[p] :
        /\ Becomes(reject(Cur, p, v), Len(status))
        /\ UNCHANGED uncaught

\* User code calls p.then(f, g), p among targets and (f, g) among pairs.
Then(targets, pairs, max) ==
    \E p \in targets, fg \in pairs :
        /\ Len(status) < max
        /\ Becomes(then(Cur, p, fg[1], fg[2]).H, max)
        /\ UNCHANGED uncaught

\* User code calls CPromise.all(list).
All(max) ==
    \E n \in 0..MaxList :
        \E list \in [1..n -> Held] :
            /\ Len(status) + 1 + n <= max
            /\ Becomes(all(Cur, list).H, max)
            /\ UNCHANGED uncaught

\* User code calls CPromise.race(list).
Race(max) ==
    \E n \in 0..MaxList :
        \E list \in [1..n -> Held] :
            /\ Len(status) + 1 + n <= max
            /\ Becomes(race(Cur, list).H, max)
            /\ UNCHANGED uncaught

\* The scheduler takes the oldest task off the queue and runs it; what it
\* throws is reported and lost.
RunTask(max) ==
    /\ queue # <<>>
    /\ LET H0 == Enter([Cur EXCEPT !.queue = Tail(@)], "task")
           r == runTask(H0, Head(queue))
       IN  /\ Becomes(Leave(r.H), max)
           /\ uncaught' = IF r.ok THEN uncaught ELSE Append(uncaught, r.r)

\* The HD objects.
HDs == {p \in Promises : made[p].by = "HD"}

\* new HD(executor), the executor keeping resolve and reject for later.
HDNew ==
    /\ Len(status) < MaxHDObjects
    /\ Becomes(construct(Cur, "HD", 0, <<>>), MaxHDObjects)
    /\ UNCHANGED uncaught

\* The kept resolve capability of a pending HD is called.
HDResolve ==
    \E p \in HDs :
        /\ status[p] = PENDING
        /\ Becomes(hdResolve(Cur, p, Str("a")), MaxHDObjects)
        /\ UNCHANGED uncaught

\* The kept reject capability of a pending HD is called.
HDReject ==
    \E p \in HDs :
        /\ status[p] = PENDING
        /\ Becomes(hdReject(Cur, p, Str("b")), MaxHDObjects)
        /\ UNCHANGED uncaught

\* The functions user code passes to HD.then(): then(f), then(f, g) with f
\* returning, then(f, g) with f throwing.
HDHandlers ==
    {<<Returns(Str("c")), NotAFunction>>,
     <<Returns(Str("c")), Returns(Str("c"))>>,
     <<Throws(Str("e")), Returns(Str("c"))>>}

\* The waiters entered so far.
HDWaiters == {pk \in HDs \X (1..MaxHDCalls) : pk[2] <= Len(callbacks[pk[1]])}

\* User code calls p.then(f, g) on an HD.
HDThen ==
    \E p \in HDs, fg \in HDHandlers :
        /\ Cardinality(HDWaiters) + Len(queue) + Len(runs) < MaxHDCalls
        /\ Becomes(hdThen(Cur, p, fg[1], fg[2]), MaxHDObjects)
        /\ UNCHANGED uncaught

\* The scheduler takes the oldest task off the queue and runs it.
HDRunTask ==
    /\ queue # <<>>
    /\ LET H0 == Enter([Cur EXCEPT !.queue = Tail(@)], "task")
           r == hdRunTask(H0, Head(queue))
       IN  /\ Becomes(Leave(r.H), MaxHDObjects)
           /\ uncaught' = IF r.ok THEN uncaught ELSE Append(uncaught, r.r)

\* The class HD of src/HD.js.
NextHD == HDNew \/ HDResolve \/ HDReject \/ HDThen \/ HDRunTask

SpecHD == Init /\ [][NextHD]_vars

\* Chains of then() on promises settled from outside.
Next ==
    \/ New(MaxPromises)
    \/ Resolve(Held, [p \in Promises |-> {Str("a")}])
    \/ Reject(Held, [p \in Promises |-> {Str("b")}])
    \/ Then(Promises, HandlerPairs(UserHandlers), MaxPromises)
    \/ RunTask(MaxPromises)

Spec == Init /\ [][Next]_vars

\* Handlers that throw or return a promise, on longer chains; each promise
\* is settled from outside at most once.
NextAdopt ==
    \/ (Cardinality(Held) < MaxHeld /\ New(MaxAdoptPromises))
    \/ Resolve(HeldPending, [p \in Promises |-> {Str("a")}])
    \/ Reject(HeldPending, [p \in Promises |-> {Str("b")}])
    \/ Then(Promises,
            {<<h, h>> : h \in {Throws(Str("e"))} \cup {ReturnsPromise(q) : q \in Held}},
            MaxAdoptPromises)
    \/ RunTask(MaxAdoptPromises)

SpecAdopt == Init /\ [][NextAdopt]_vars

\* all() over promises settled from outside, at most once each, beside
\* then() calls whose handlers throw.
NextAll ==
    \/ (Cardinality(Held) < MaxHeld /\ New(MaxAllPromises))
    \/ Resolve(HeldPending, [p \in Promises |-> {ValueOf(p)}])
    \/ Reject(HeldPending, [p \in Promises |-> {ReasonOf(p)}])
    \/ Then(Held, {<<Throws(Str("e")), Throws(Str("e"))>>}, MaxAllPromises)
    \/ All(MaxAllPromises)
    \/ RunTask(MaxAllPromises)

SpecAll == Init /\ [][NextAll]_vars

\* race() over promises settled from outside, at most once each, beside
\* then() calls whose handlers throw.
NextRace ==
    \/ (Cardinality(Held) < MaxHeld /\ New(MaxRacePromises))
    \/ Resolve(HeldPending, [p \in Promises |-> {ValueOf(p)}])
    \/ Reject(HeldPending, [p \in Promises |-> {ReasonOf(p)}])
    \/ Then(Held, {<<Throws(Str("e")), Throws(Str("e"))>>}, MaxRacePromises)
    \/ Race(MaxRacePromises)
    \/ RunTask(MaxRacePromises)

SpecRace == Init /\ [][NextRace]_vars

\* A string or a promise whose capabilities were handed out.
StringOrPromise == {Str("a")} \cup {PromiseRef(q) : q \in Held}

\* Throwing executors and the static resolve() and reject(), over strings
\* and promises settled from outside, beside then() calls whose handlers
\* throw.
NextStatic ==
    \/ (Cardinality(Held) < MaxHeld /\ New(MaxStaticPromises))
    \/ NewThrowing(MaxStaticPromises)
    \/ StaticResolve(StringOrPromise, MaxStaticPromises)
    \/ StaticReject(StringOrPromise, MaxStaticPromises)
    \/ Resolve(HeldPending, [p \in Promises |-> {Str("a")}])
    \/ Reject(HeldPending, [p \in Promises |-> {Str("b")}])
    \/ Then(Held, {<<Throws(Str("e")), Throws(Str("e"))>>}, MaxStaticPromises)
    \/ RunTask(MaxStaticPromises)

SpecStatic == Init /\ [][NextStatic]_vars

\* then() without handlers, on promises settled from outside with a string
\* or with a promise as value, and on the promises then() returned.
NextPass ==
    \/ (Cardinality(Held) < MaxHeld /\ New(MaxPassPromises))
    \/ Resolve(HeldPending, [p \in Promises |-> StringOrPromise])
    \/ Reject(HeldPending, [p \in Promises |-> {Str("b")}])
    \/ Then(Promises, {<<NotAFunction, NotAFunction>>}, MaxPassPromises)
    \/ RunTask(MaxPassPromises)

SpecPass == Init /\ [][NextPass]_vars

\* Handlers that return a promise, on promises settled from outside with a
\* string or with a promise as value.
NextFlatten ==
    \/ (Cardinality(Held) < MaxHeld /\ New(MaxFlattenPromises))
    \/ Resolve(HeldPending, [p \in Promises |-> StringOrPromise])
    \/ Reject(HeldPending, [p \in Promises |-> {Str("b")}])
    \/ Then(Held, {<<ReturnsPromise(q), ReturnsPromise(q)>> : q \in Held}, MaxFlattenPromises)
    \/ RunTask(MaxFlattenPromises)

SpecFlatten == Init /\ [][NextFlatten]_vars

\* ------------------------------------------------------------- claims
Runs == 1..Len(runs)

\* The promises all() returned.
Aggregates == {a \in Promises : made[a].by = "all"}

\* C1: only the first resolve()/reject() call made while a promise is pending
\* changes its status and value: a promise that has left pending keeps its
\* status and value in every step, and a pending one moves to fulfilled or
\* reject only.
C1_SettlesOnce ==
    [][\A p \in Promises :
          /\ status[p] # PENDING => status'[p] = status[p] /\ value'[p] = value[p]
          /\ status'[p] \in {PENDING, FULFILLED, REJECT}]_vars

\* A fulfilled and a rejected promise on which a later resolve()/reject() call
\* was made and ignored.
C1_Witness ==
    /\ \E p \in ignored : status[p] = FULFILLED /\ value[p] = Str("a")
    /\ \E p \in ignored : status[p] = REJECT /\ value[p] = Str("b")

\* C2: a handler passed to then() is only ever invoked directly by a task the
\* scheduler took from its queue, never with a resolve(), reject() or then()
\* call on the stack, whether it was registered while the promise was pending
\* (via the callbacks list) or after it was terminal.
C2_HandlersRunInTasks == \A i \in Runs : runs[i].ctx = <<"task">>

\* Handlers have run both from the callbacks list and from a task queued by
\* then() on a terminal promise.
C2_Witness ==
    /\ \E i \in Runs : runs[i].via = "callbacks"
    /\ \E i \in Runs : runs[i].via = "then"

\* C3: the handlers registered on one promise by successive then() calls run
\* in the order of those calls.  (Promises are numbered as constructed, so the
\* promise of an earlier then() call has the smaller number.)
C3_RegistrationOrder ==
    \A i, j \in Runs : (i < j /\ runs[i].p = runs[j].p) => runs[i].c < runs[j].c

\* Two handlers of one promise have run, the first registered while it was
\* pending, the second after it settled and before its dispatch task ran.
C3_Witness ==
    \E i, j \in Runs :
        /\ i < j
        /\ runs[i].p = runs[j].p
        /\ runs[i].via = "callbacks"
        /\ runs[j].via = "then"
        /\ made[runs[j].c].after < i

\* C4: when a handler passed to then() raises, the promise that then() call
\* returned is rejected with the raised value.
C4_RaiseRejects ==
    \A i \in Runs :
        ~runs[i].ok =>
            status[runs[i].c] = REJECT /\ value[runs[i].c] = runs[i].r

\* C5: when a handler returns the very promise its then() call returned, that
\* promise is rejected with the chaining-cycle error, and the error is not
\* thrown out of the task that ran the handler.
C5_CycleRejects ==
    \A i \in Runs :
        (runs[i].ok /\ runs[i].r = PromiseRef(runs[i].c)) =>
            /\ status[runs[i].c] = REJECT
            /\ value[runs[i].c] = CycleError
            /\ \A k \in 1..Len(uncaught) : uncaught[k] # CycleError

\* C6: when then() is called without a callable rejected handler on a promise
\* rejected with reason r, the promise then() returned is rejected with r once
\* the handler put in its place has run.
C6_RejectionPassesThrough ==
    \A i \in Runs :
        (runs[i].side = "rejected" /\ runs[i].h = "thisValue") =>
            status[runs[i].c] = REJECT /\ value[runs[i].c] = runs[i].arg

\* The handler runs whose handler returned a promise other than the one its
\* then() call returned.
Adopting ==
    {i \in Runs : runs[i].ok /\ runs[i].r.k = "promise" /\ runs[i].r.n # runs[i].c}

\* C7, first half: the promise then() returned stays pending until the
\* promise R its handler returned settles, and is never terminal with another
\* status or value than R's.
AdoptsNoOtherOutcome ==
    \A i \in Adopting :
        status[runs[i].c] # PENDING =>
            /\ status[runs[i].c] = status[runs[i].r.n]
            /\ value[runs[i].c] = value[runs[i].r.n]

\* C7: when a handler returns a promise R other than the promise then()
\* returned, that promise stays pending until R settles and then reaches R's
\* status and value: once R is terminal and the scheduler has run every task,
\* it is terminal too.
C7_AdoptsOutcome ==
    /\ AdoptsNoOtherOutcome
    /\ \A i \in Adopting :
          (queue = <<>> /\ status[runs[i].r.n] # PENDING) =>
              status[runs[i].c] # PENDING

\* The fulfillment values of the inputs of a, by position in the list.
ByPosition(a) == [i \in 1..Len(made[a].list) |-> value[made[a].list[i]]]

\* C8: when every input of all() is fulfilled and the promise all() returned
\* is fulfilled, its value is the sequence holding at position i the value of
\* list[i].
C8_AllByPosition ==
    \A a \in Aggregates :
        (/\ status[a] = FULFILLED
         /\ \A i \in 1..Len(made[a].list) : status[made[a].list[i]] = FULFILLED)
            => value[a] = Array(ByPosition(a))

\* C9: the promise all() returned for an empty list is fulfilled with an empty
\* sequence once the scheduler has run every task.
C9_AllOfNothing ==
    \A a \in Aggregates :
        (made[a].list = <<>> /\ queue = <<>>) =>
            status[a] = FULFILLED /\ value[a] = Array(<<>>)

\* The place of a terminal promise in the order of settlement.
SettledAt(p) == CHOOSE k \in 1..Len(settled) : settled[k] = p

\* The inputs of a that are rejected.
RejectedInputs(a) ==
    {made[a].list[i] : i \in {k \in 1..Len(made[a].list) : status[made[a].list[k]] = REJECT}}

RejectionsSeen(a) == {i \in Runs : runs[i].h = "allOnRejected" /\ runs[i].n = a}

Races == {a \in Promises : made[a].by = "race"}

\* The inputs of a that have left pending.
TerminalInputs(a) ==
    {made[a].list[i] : i \in {k \in 1..Len(made[a].list) : status[made[a].list[k]] # PENDING}}

RaceSeen(a) ==
    {i \in Runs : runs[i].h \in {"raceOnFulfilled", "raceOnRejected"} /\ runs[i].n = a}

C17_RaceOfNothingPends ==
    \A a \in Races : made[a].list = <<>> => status[a] = PENDING

\* race([]) was called, other promises have settled since, a race() over
\* them has settled, and the scheduler has no task left.
C17_Witness ==
    \E a, b \in Races :
        /\ made[a].list = <<>>
        /\ a < b
        /\ status[a] = PENDING
        /\ status[b] # PENDING
        /\ queue = <<>>

\* The promises the constructor made from an executor that throws.
FromThrowing == {p \in Promises : made[p].by = "executor"}

\* C12: a promise whose executor raised before calling resolve or reject is
\* rejected with the raised value; one whose executor raised after settling
\* it keeps the status and value the executor gave it.
C12_ExecutorRaise ==
    \A p \in FromThrowing :
        LET executor == made[p].list[1]
        IN  /\ executor.e = "throws" =>
                  status[p] = REJECT /\ value[p] = executor.w
            /\ executor.e = "resolvesThenThrows" =>
                  status[p] = FULFILLED /\ value[p] = executor.v
            /\ executor.e = "rejectsThenThrows" =>
                  status[p] = REJECT /\ value[p] = executor.v

\* Three promises: one rejected with what its executor threw at once, one
\* fulfilled and one rejected by executors that threw afterwards, on which
\* the constructor's reject(error) was called too late.
C12_Witness ==
    \E p, q, r \in FromThrowing :
        /\ made[p].list[1].e = "throws"
        /\ value[p] = Str("e")
        /\ made[q].list[1].e = "resolvesThenThrows"
        /\ status[q] = FULFILLED
        /\ made[r].list[1].e = "rejectsThenThrows"
        /\ value[r] = Str("b")
        /\ {q, r} \subseteq ignored
        /\ p \notin ignored

\* The promises the static resolve() and the static reject() returned.
Resolved == {p \in Promises : made[p].by = "resolve"}
Rejected == {p \in Promises : made[p].by = "reject"}

\* The argument of the static call that returned p.
ArgumentOf(p) == made[p].list[1].v

\* C13: the promise the static resolve(x) returned is fulfilled with x from
\* the return of the call on when x is not a promise; when x is a promise it
\* is pending while x is, never terminal with another status or value than
\* x's, and terminal once x is and the scheduler has run every task.
C13_StaticResolve ==
    \A p \in Resolved :
        LET x == ArgumentOf(p)
        IN  IF x.k # "promise"
            THEN status[p] = FULFILLED /\ value[p] = x
            ELSE /\ status[p] # PENDING =>
                       status[p] = status[x.n] /\ value[p] = value[x.n]
                 /\ (queue = <<>> /\ status[x.n] # PENDING) => status[p] # PENDING

\* The capabilities of p are in the hands of a waiter, a queued task or a
\* handler that has run.
Subscribed(p) ==
    \/ \E q \in Promises : \E k \in 1..Len(callbacks[q]) :
          {callbacks[q][k].onFulfilled, callbacks[q][k].onRejected}
              \cap {ResolveOf(p), RejectOf(p)} # {}
    \/ \E k \in 1..Len(queue) : queue[k].f \in {ResolveOf(p), RejectOf(p)}
    \/ \E i \in Runs : runs[i].n = p /\ runs[i].h \in {"resolve", "reject"}

\* C14: the promise the static reject(x) returned is rejected with reason x
\* from the return of the call on, x being a string or a promise, and its
\* capabilities are never given to a then() call on x.
C14_StaticReject ==
    \A p \in Rejected :
        /\ status[p] = REJECT
        /\ value[p] = ArgumentOf(p)
        /\ ~Subscribed(p)

\* reject(x) was called on a pending promise x, x was settled afterwards and
\* the scheduler has run every task.
C14_Witness ==
    \E p \in Rejected :
        /\ ArgumentOf(p).k = "promise"
        /\ made[ArgumentOf(p).n].by = "new"
        /\ status[ArgumentOf(p).n] = FULFILLED
        /\ SettledAt(p) < SettledAt(ArgumentOf(p).n)
        /\ value[p] = ArgumentOf(p)
        /\ queue = <<>>

\* The promises then() returned.
Children == {c \in Promises : made[c].by = "then"}

\* The handler of the then() call that returned c has returned a promise
\* that is still pending.
AwaitsPending(c) ==
    \E i \in Runs :
        /\ runs[i].c = c
        /\ runs[i].ok
        /\ runs[i].r.k = "promise"
        /\ status[runs[i].r.n] = PENDING

\* C15: once the scheduler has run every task, every promise then() returned
\* on a promise that has settled has settled too, unless its handler returned
\* a promise that is still pending.
C15_ChainCompletes ==
    queue = <<>> =>
        \A c \in Children :
            status[made[c].of] # PENDING => (status[c] # PENDING \/ AwaitsPending(c))

\* The waiter of the then() call on p that returned c, if it was entered in
\* the callbacks list.
WaitersFor(p, c) == {k \in 1..Len(callbacks[p]) : callbacks[p][k].promise = c}

Dispatched(p) ==
    /\ status[p] # PENDING
    /\ \A k \in 1..Len(queue) :
          ~(queue[k].p = p /\ queue[k].t \in {"dispatchFulfilled", "dispatchRejected"})

\* C18: once the dispatch task of a settled promise has run, the handler of
\* every waiter in its callbacks list has been invoked.
C18_EveryWaiterRuns ==
    \A p \in Promises :
        Dispatched(p) =>
            \A k \in 1..Len(callbacks[p]) :
                \E i \in Runs : runs[i].c = callbacks[p][k].promise

\* C19: when a handler passed to then(), on either side, returns a value
\* that is not a promise, the promise then() returned is fulfilled with that
\* value.
C19_ReturnFulfills ==
    \A i \in Runs :
        (runs[i].h # "thisValue" /\ runs[i].ok /\ runs[i].r.k # "promise") =>
            status[runs[i].c] = FULFILLED /\ value[runs[i].c] = runs[i].r

\* A rejected handler returned "c" and the promise of its then() call is
\* fulfilled with "c"; a fulfilled handler on that promise returned a value
\* in turn.
C19_Witness ==
    \E i, j \in Runs :
        /\ runs[i].side = "rejected"
        /\ runs[i].h = "returns"
        /\ status[runs[i].p] = REJECT
        /\ status[runs[i].c] = FULFILLED
        /\ value[runs[i].c] = Str("c")
        /\ runs[j].p = runs[i].c
        /\ runs[j].side = "fulfilled"
        /\ runs[j].h = "returns"
        /\ status[runs[j].c] = FULFILLED

\* The runs of the function then() puts in the place of a fulfilled handler
\* that is not callable.
PassedOn == {i \in Runs : runs[i].side = "fulfilled" /\ runs[i].h = "thisValue"}

C21_FlattensTransitively ==
    \A i \in Adopting :
        LET c == runs[i].c
            R == runs[i].r.n
        IN  (status[R] = FULFILLED /\ value[R].k = "promise" /\ value[R].n # R) =>
                LET R2 == value[R].n
                IN  /\ status[R2] = PENDING => status[c] = PENDING
                    /\ (status[c] # PENDING /\ value[R2].k # "promise") =>
                          status[c] = status[R2] /\ value[c] = value[R2]

\* C22: the promise all() returned is fulfilled only in states where every
\* input in the list is fulfilled, and then with one value for each place in
\* the list.
C22_AllFulfilledLast ==
    \A a \in Aggregates :
        status[a] = FULFILLED =>
            /\ \A i \in 1..Len(made[a].list) : status[made[a].list[i]] = FULFILLED
            /\ value[a].k = "array"
            /\ Len(value[a].s) = Len(made[a].list)

\* all() over a list that holds one promise twice is fulfilled, with the
\* value of that promise at both places, beside a rejected promise; the
\* scheduler has run every task.
C22_Witness ==
    \E a \in Aggregates : \E p, q \in Held :
        /\ made[a].list = <<p, p>>
        /\ status[a] = FULFILLED
        /\ value[a] = Array(<<value[p], value[p]>>)
        /\ status[q] = REJECT
        /\ queue = <<>>

\* The step is a then() call of user code on p: one promise is constructed,
\* by then() on p, and no handler runs.
IsThenCall(p) ==
    /\ Len(status') = Len(status) + 1
    /\ made'[Len(status')].by = "then"
    /\ made'[Len(status')].of = p
    /\ runs' = runs

\* C23: a then() call on p leaves the status and value of p as they are; it
\* appends one waiter to the callbacks list of p when p is pending and
\* leaves the list as it is when p is fulfilled or rejected.  In no step at
\* all, a task that calls then() included, does the callbacks list of a
\* fulfilled or rejected promise change.
C23_ThenFrame ==
    [][\A p \in Promises :
          /\ IsThenCall(p) =>
                /\ status'[p] = status[p]
                /\ value'[p] = value[p]
                /\ status[p] = PENDING =>
                      /\ Len(callbacks'[p]) = Len(callbacks[p]) + 1
                      /\ SubSeq(callbacks'[p], 1, Len(callbacks[p])) = callbacks[p]
                      /\ callbacks'[p][Len(callbacks'[p])].promise = Len(status')
          /\ status[p] # PENDING => callbacks'[p] = callbacks[p]]_vars

\* A fulfilled promise with one waiter, entered by a then() call made while
\* it was pending; a later then() call on it has returned a promise that is
\* not in the list, and the handlers of both have run.
C23_Witness ==
    \E p \in Promises : \E i, j \in Runs :
        /\ status[p] = FULFILLED
        /\ Len(callbacks[p]) = 1
        /\ runs[i].p = p
        /\ runs[j].p = p
        /\ runs[i].via = "callbacks"
        /\ runs[j].via = "then"
        /\ callbacks[p][1].promise = runs[i].c
        /\ queue = <<>>

\* The map over the callbacks of p that resolve() or reject() queued has run.
HDDispatched(p) ==
    /\ status[p] # PENDING
    /\ \A k \in 1..Len(queue) : ~(queue[k].p = p /\ queue[k].t = "map")

\* C24: once the task resolve() queued for an HD has run, the fulfilled
\* handler of every waiter then() registered has been invoked, in a task,
\* with the value resolve() was given.
C24_HDDispatch ==
    \A p \in HDs :
        (status[p] = FULFILLED /\ HDDispatched(p)) =>
            \A k \in 1..Len(callbacks[p]) :
                \E i \in Runs :
                    /\ runs[i].p = p
                    /\ runs[i].c = k
                    /\ runs[i].side = "fulfilled"
                    /\ runs[i].h = callbacks[p][k].onFulfilled.h
                    /\ runs[i].arg = value[p]
                    /\ runs[i].ctx = <<"task">>

RunsOf(c) == {i \in Runs : runs[i].c = c}

====
